---- MODULE Spec2Model ----
(***************************************************************************)
(* Telemetry analysis pipeline of PI8SEM/api: the four analyzers           *)
(*   analisar_dados_json      (voltage, analise_tensao_rms.py)             *)
(*   analisar_corrente_json   (current, analise_corrente_rms.py)           *)
(*   analisar_potencia_json   (power,   analise_potencia_ativa_reativa.py) *)
(*   analisar_demanda_json    (demand,  analise_demanda_perfil.py)         *)
(* Each call is one action: it draws its input from a bounded set and      *)
(* stores the returned structure (or the fact that the call raised).       *)
(*                                                                         *)
(* Numbers are exact rationals [k |-> "num", n, d]; a standard deviation   *)
(* is kept as the square root of a rational, [k |-> "sqrt", n, d].         *)
(* Times are seconds since midnight of the first day of the batch.         *)
(***************************************************************************)
EXTENDS Integers, Sequences, FiniteSets, TLC

VARIABLES pc, analyzer, records, params, result

vars == <<pc, analyzer, records, params, result>>

----------------------------------------------------------------------------
(* Bounds of the explored inputs *)

MaxLen == 2

MaxSerie == 5

----------------------------------------------------------------------------
(* Values *)

Cell(k, v) == [k |-> k, v |-> v]

AbsentCell == Cell("absent", 0)

NullCell == Cell("null", 0)

StrCell == Cell("str", 0)

NumCell(v) == Cell("num", v)

NumStrCell(v) == Cell("numstr", v)

BrCell(t) == Cell("br", t)

BrMinCell(t) == Cell("brmin", t)

IsoCell(t) == Cell("iso", t)

NaT == Cell("nat", 0)

Ts(t) == Cell("ts", t)

Abs(x) == IF x < 0 THEN -x ELSE x

RECURSIVE Gcd(_, _)
Gcd(a, b) == IF b = 0 THEN a ELSE Gcd(b, a % b)

Q(n, d) ==
  LET s == IF d < 0 THEN -1 ELSE 1
      g == Gcd(Abs(n), Abs(d))
  IN [k |-> "num", n |-> (s * n) \div g, d |-> (s * d) \div g]

Int2Q(i) == [k |-> "num", n |-> i, d |-> 1]

NaN == [k |-> "nan", n |-> 0, d |-> 1]

None == [k |-> "null", n |-> 0, d |-> 1]

IsNum(x) == x.k = "num"

RAdd(a, b) ==
  LET g == Gcd(a.d, b.d)
  IN Q(a.n * (b.d \div g) + b.n * (a.d \div g), (a.d \div g) * b.d)

RSub(a, b) == RAdd(a, [k |-> "num", n |-> -b.n, d |-> b.d])

RMul(a, b) ==
  LET g1 == Gcd(Abs(a.n), b.d)
      g2 == Gcd(Abs(b.n), a.d)
  IN Q((a.n \div g1) * (b.n \div g2), (a.d \div g2) * (b.d \div g1))

RDiv(a, b) == RMul(a, Q(b.d, b.n))

RLt(a, b) == a.n * b.d < b.n * a.d

RLe(a, b) == a.n * b.d <= b.n * a.d

RAbs(a) == [k |-> "num", n |-> Abs(a.n), d |-> a.d]

Sqrt(a) == [k |-> "sqrt", n |-> a.n, d |-> a.d]

----------------------------------------------------------------------------
(* Input records: a JSON mapping is a total function over Fields whose     *)
(* absent keys hold AbsentCell.                                            *)

TimeFields == {"data_coleta", "data_inc"}

Fases == <<"tensao_1", "tensao_2", "tensao_3">>

FasesCorrente == <<"corrente_1", "corrente_2", "corrente_3">>

FasesAtiva == <<"potencia_ativa_1", "potencia_ativa_2", "potencia_ativa_3">>

FasesReat == <<"potencia_reat_1", "potencia_reat_2", "potencia_reat_3">>

AltDemanda == <<"potencia_ap_tot", "potencia_ap_1", "potencia_ap_2", "potencia_ap_3">>

Range(s) == {s[i] : i \in 1..Len(s)}

NumFields ==
  Range(Fases) \cup Range(FasesCorrente) \cup Range(FasesAtiva) \cup Range(FasesReat)
    \cup Range(AltDemanda) \cup {"potencia_ativa_tot", "potencia_reat_tot", "fator_potencia"}

Fields == TimeFields \cup NumFields

EmptyRec == [f \in Fields |-> AbsentCell]

Rec(o) == [f \in Fields |-> IF f \in DOMAIN o THEN o[f] ELSE AbsentCell]

Item(wrap, rec) == [wrap |-> wrap, rec |-> rec]

Input(shape, items) == [shape |-> shape, items |-> items]

RECURSIVE SeqMap(_, _)
SeqMap(Op(_), s) == IF s = <<>> THEN <<>> ELSE <<Op(s[1])>> \o SeqMap(Op, Tail(s))

----------------------------------------------------------------------------
(* Sequences of rationals *)

RECURSIVE RSum(_)
RSum(s) == IF s = <<>> THEN Int2Q(0) ELSE RAdd(s[1], RSum(Tail(s)))

RECURSIVE RInsert(_, _)
RInsert(s, x) ==
  IF s = <<>> THEN <<x>>
  ELSE IF RLt(x, s[1]) THEN <<x>> \o s
  ELSE <<s[1]>> \o RInsert(Tail(s), x)

RECURSIVE RSort(_)
RSort(s) == IF s = <<>> THEN <<>> ELSE RInsert(RSort(Tail(s)), s[1])

dropna(s) == SelectSeq(s, IsNum)

Mean(s) == RDiv(RSum(s), Int2Q(Len(s)))

SqDev(s) ==
  LET mu == Mean(s)
      Sq(x) == RMul(RSub(x, mu), RSub(x, mu))
  IN RSum(SeqMap(Sq, s))

(* pandas Series.var of the non-missing values, ddof = 1: NaN for one value *)
(* the population variance (denominator n) *)
Var_population(s) == IF Len(s) < 2 THEN NaN ELSE RDiv(SqDev(s), Int2Q(Len(s)))

Var(s) == IF Len(s) < 2 THEN NaN ELSE RDiv(SqDev(s), Int2Q(Len(s) - 1))

(* pandas Series.std *)
Std(s) == LET v == Var(s) IN IF IsNum(v) THEN Sqrt(v) ELSE NaN

SeqMin(s) == LET o == RSort(s) IN o[1]

SeqMax(s) == LET o == RSort(s) IN o[Len(o)]

(* pandas Series.median of non-missing values *)
Median(s) ==
  LET o == RSort(s)
      n == Len(o)
  IN IF n % 2 = 1 THEN o[(n + 1) \div 2]
     ELSE RDiv(RAdd(o[n \div 2], o[n \div 2 + 1]), Int2Q(2))

----------------------------------------------------------------------------
(* Input normalisation *)

(* analise_tensao_rms.analyze_records, line 109: a mapping without the     *)
(* envelope key becomes the empty mapping.                                 *)
RowsTensao(items) ==
  LET Row(it) == IF it.wrap = "env" THEN it.rec ELSE EmptyRec
  IN SeqMap(Row, items)

(* a mapping: wrapped ("env": {dadoEnergia: rec}), bare (rec itself), or    *)
(* "badenv": rec itself with a dadoEnergia key whose value is no mapping   *)
IsDict(it) == it.wrap \in {"env", "bare", "badenv"}

ItemRec(it) == it.rec

(* keeps the list elements that are not mappings *)
_normalizar_input_keepall(recs) ==
  IF recs.shape = "null" THEN <<>>
  ELSE IF recs.shape = "dict" THEN <<recs.items[1].rec>>
  ELSE IF recs.shape = "list" THEN SeqMap(ItemRec, recs.items)
  ELSE <<>>

_normalizar_input(recs) ==
  IF recs.shape = "null" THEN <<>>
  ELSE IF recs.shape = "dict" THEN <<recs.items[1].rec>>
  ELSE IF recs.shape = "list" THEN SeqMap(ItemRec, SelectSeq(recs.items, IsDict))
  ELSE <<>>

----------------------------------------------------------------------------
(* The data frame: its columns and its rows *)

DataFrame(rows) ==
  [cols |-> {f \in Fields : \E i \in 1..Len(rows) : rows[i][f].k # "absent"},
   rows |-> rows]

(* datetime.strptime(s, "%d/%m/%Y %H:%M:%S"); any failure gives None *)
parse_dt(c) == IF c.k = "br" THEN Ts(c.v) ELSE NaT

(* pd.to_datetime(utc=True, errors='coerce') of one cell *)
to_datetime(c) == IF c.k = "iso" THEN Ts(c.v) ELSE NaT

parse_datetime_series(rows, col) ==
  LET P(r) == to_datetime(r[col]) IN SeqMap(P, rows)

IsValidDt(r) == r.dt.k = "ts"

IsNaTRow(r) == r.dt.k = "nat"

RECURSIVE InsertRow(_, _)
InsertRow(s, r) ==
  IF s = <<>> THEN <<r>>
  ELSE IF r.dt.v < s[1].dt.v THEN <<r>> \o s
  ELSE <<s[1]>> \o InsertRow(Tail(s), r)

RECURSIVE SortRows(_)
SortRows(s) == IF s = <<>> THEN <<>> ELSE InsertRow(SortRows(SubSeq(s, 1, Len(s) - 1)), s[Len(s)])

(* the frame is left in input order *)
sort_values_unsorted(rows) == rows

(* df.sort_values(col).reset_index(drop=True): ascending, NaT last, ties   *)
(* and NaT rows in their input order.                                      *)
sort_values(rows) == SortRows(SelectSeq(rows, IsValidDt)) \o SelectSeq(rows, IsNaTRow)

(* pd.to_numeric(errors='coerce') of one cell *)
to_numeric(c) ==
  IF c.k = "num" THEN Int2Q(c.v)
  ELSE IF c.k = "numstr" THEN Int2Q(c.v)
  ELSE NaN

(* rows with parsed time, sorted, numeric columns coerced *)
Frame(rows, dts) ==
  LET df == DataFrame(rows)
      withDt == [i \in 1..Len(rows) |-> [raw |-> rows[i], dt |-> dts[i]]]
      Coerce(r) == [dt |-> r.dt, c |-> [f \in NumFields |-> to_numeric(r.raw[f])]]
  IN [cols |-> df.cols, rows |-> SeqMap(Coerce, sort_values(withDt))]

(* A Series is a sequence of index labels and a sequence of values. After  *)
(* reset_index the labels are the positions 0..n-1.                        *)
Series(idx, val) == [idx |-> idx, val |-> val]

RangeIndex(n) == [i \in 1..n |-> Cell("i", i - 1)]

EmptySeries == Series(<<>>, <<>>)

Col(df, f) == Series(RangeIndex(Len(df.rows)), [i \in 1..Len(df.rows) |-> df.rows[i].c[f]])

(* df.get(f, pd.Series(dtype=float)) *)
GetCol(df, f) == IF f \in df.cols THEN Col(df, f) ELSE EmptySeries

Times(df) == Series(RangeIndex(Len(df.rows)), [i \in 1..Len(df.rows) |-> df.rows[i].dt])

ValidTimes(df) == {df.rows[i].dt.v : i \in {j \in 1..Len(df.rows) : df.rows[j].dt.k = "ts"}}

SetMin(S) == CHOOSE x \in S : \A y \in S : x <= y

SetMax(S) == CHOOSE x \in S : \A y \in S : x >= y

----------------------------------------------------------------------------
(* Statistics, nominal level, trend, anomalies, tolerance band *)

(* counts the rows of the frame instead of the non-missing values *)
StatsRow_rows(name, ser) ==
  LET s == dropna(ser.val)
  IN IF s = <<>>
     THEN [Fase |-> name, media |-> None, desvio |-> None, min |-> None, max |-> None,
           Amostras |-> 0]
     ELSE [Fase |-> name, media |-> Mean(s), desvio |-> Std(s), min |-> SeqMin(s),
           max |-> SeqMax(s), Amostras |-> Len(ser.val)]

StatsRow(name, ser) ==
  LET s == dropna(ser.val)
  IN IF s = <<>>
     THEN [Fase |-> name, media |-> None, desvio |-> None, min |-> None, max |-> None,
           Amostras |-> 0]
     ELSE [Fase |-> name, media |-> Mean(s), desvio |-> Std(s), min |-> SeqMin(s),
           max |-> SeqMax(s), Amostras |-> Len(s)]

estatisticas_por_fase(df, fases) ==
  [i \in 1..Len(fases) |-> StatsRow(fases[i], GetCol(df, fases[i]))]

RECURSIVE Pooled(_, _)
Pooled(df, fases) ==
  IF fases = <<>> THEN <<>>
  ELSE dropna(GetCol(df, fases[1]).val) \o Pooled(df, Tail(fases))

POSSIVEIS_NIVEIS == <<110, 220, 380>>

(* the highest candidate level that does not exceed the median *)
NearestNivel_below(med) ==
  LET B == {i \in 1..Len(POSSIVEIS_NIVEIS) : RLe(Int2Q(POSSIVEIS_NIVEIS[i]), med)}
  IN Int2Q(POSSIVEIS_NIVEIS[IF B = {} THEN 1 ELSE SetMax(B)])

(* min(POSSIVEIS_NIVEIS, key=lambda x: abs(x - med)): the first minimum *)
NearestNivel(med) ==
  LET D(i) == RAbs(RSub(Int2Q(POSSIVEIS_NIVEIS[i]), med))
      best == CHOOSE i \in 1..Len(POSSIVEIS_NIVEIS) :
                /\ \A j \in 1..Len(POSSIVEIS_NIVEIS) : RLe(D(i), D(j))
                /\ \A j \in 1..(i - 1) : RLt(D(i), D(j))
  IN Int2Q(POSSIVEIS_NIVEIS[best])

(* falls back to a candidate level when there is no sample *)
escolher_nivel_nominal_default(df, fases) ==
  LET vals == Pooled(df, fases)
  IN IF vals = <<>> THEN NearestNivel(Int2Q(0)) ELSE NearestNivel(Median(vals))

escolher_nivel_nominal(df, fases) ==
  LET vals == Pooled(df, fases)
  IN IF vals = <<>> THEN None ELSE NearestNivel(Median(vals))

(* snaps the median to a candidate level, as the voltage analyzer does *)
escolher_nivel_nominal_por_mediana_snapped(df, fases) ==
  LET vals == Pooled(df, fases)
  IN IF vals = <<>> THEN None ELSE NearestNivel(Median(vals))

escolher_nivel_nominal_por_mediana(df, fases) ==
  LET vals == Pooled(df, fases)
  IN IF vals = <<>> THEN None ELSE Median(vals)

escolher_nivel_nominal_potencia_total(df) ==
  LET s == dropna(GetCol(df, "potencia_ativa_tot").val)
  IN IF s = <<>> THEN None ELSE Median(s)

RECURSIVE IdxSeq(_, _)
IdxSeq(n, M) == IF n = 0 THEN <<>> ELSE IdxSeq(n - 1, M) \o (IF n \in M THEN <<n>> ELSE <<>>)

NullTrend == [slope_per_s |-> None, intercept |-> None]

NaNTrend == [slope_per_s |-> NaN, intercept |-> NaN]

RaiseTrend == [slope_per_s |-> [k |-> "raise", n |-> 0, d |-> 1],
               intercept |-> [k |-> "raise", n |-> 0, d |-> 1]]

(* position in the series of the label of position i of times, 0 if none:  *)
(* the boolean mask is aligned on the index labels                         *)
Aligned(times, series, i) ==
  LET J == {j \in 1..Len(series.idx) : series.idx[j] = times.idx[i]}
  IN IF J = {} THEN 0 ELSE CHOOSE j \in J : TRUE

Mask(times, series) ==
  {i \in 1..Len(times.idx) :
     /\ times.val[i].k = "ts"
     /\ Aligned(times, series, i) # 0
     /\ IsNum(series.val[Aligned(times, series, i)])}

(* np.polyfit(xs, ys, 1) for xs that are not all equal: least squares *)
polyfit(xs, ys) ==
  LET n == Int2Q(Len(xs))
      Sx == RSum(xs)
      Sy == RSum(ys)
      Sxx == RSum([i \in 1..Len(xs) |-> RMul(xs[i], xs[i])])
      Sxy == RSum([i \in 1..Len(xs) |-> RMul(xs[i], ys[i])])
      slope == RDiv(RSub(RMul(n, Sxy), RMul(Sx, Sy)), RSub(RMul(n, Sxx), RMul(Sx, Sx)))
  IN [slope_per_s |-> slope, intercept |-> RDiv(RSub(Sy, RMul(slope, Sx)), n)]

TrendXs(times, series) ==
  LET I == IdxSeq(Len(times.idx), Mask(times, series))
      t0 == SetMin({times.val[i].v : i \in Mask(times, series)})
  IN [k \in 1..Len(I) |-> Int2Q(times.val[I[k]].v - t0)]

TrendYs(times, series) ==
  LET I == IdxSeq(Len(times.idx), Mask(times, series))
  IN [k \in 1..Len(I) |-> series.val[Aligned(times, series, I[k])]]

Ptp(xs) == RSub(SeqMax(xs), SeqMin(xs))

(* analise_tensao_rms.tendencia_linear_simples: no guard on the time       *)
(* spread. With all xs equal, polyfit scales the x column by its zero norm *)
(* and the least-squares solve either raises LinAlgError or returns NaN,   *)
(* depending on the LAPACK build: degenerate is one of "raise", "nan".     *)
tendencia_linear_simples_tensao(times, series, degenerate) ==
  IF Cardinality(Mask(times, series)) < 2 THEN NullTrend
  ELSE IF Ptp(TrendXs(times, series)).n = 0
       THEN (IF degenerate = "raise" THEN RaiseTrend ELSE NaNTrend)
       ELSE polyfit(TrendXs(times, series), TrendYs(times, series))

(* tendencia_linear_simples of the current, power and demand analyzers *)
tendencia_linear_simples(times, series) ==
  IF Cardinality(Mask(times, series)) < 2 THEN NullTrend
  ELSE IF Ptp(TrendXs(times, series)).n = 0 THEN NullTrend
       ELSE polyfit(TrendXs(times, series), TrendYs(times, series))

(* squares the deviation but not the threshold *)
ZExceeds_halfsquared(v, mu, var, z_thr) ==
  LET dev == RSub(v, mu)
  IN RLt(RMul(z_thr, var), RMul(dev, dev))

(* |z| > z_thr for a value v, given the mean and the sample variance *)
ZExceeds(v, mu, var, z_thr) ==
  LET dev == RSub(v, mu)
  IN RLt(RMul(RMul(z_thr, z_thr), var), RMul(dev, dev))

(* numbers the anomalous samples by their position among the non-missing  *)
(* values                                                                  *)
detectar_anomalias_zscore_dense(series, z_thr) ==
  LET s == dropna(series.val)
      mu == Mean(s)
      sigma2 == Var(s)
  IN IF s = <<>> THEN <<>>
     ELSE IF ~IsNum(sigma2) \/ sigma2.n = 0 THEN <<>>
     ELSE LET A == {i \in 1..Len(s) : ZExceeds(s[i], mu, sigma2, z_thr)}
              I == IdxSeq(Len(s), A)
          IN [k \in 1..Len(I) |-> Cell("i", I[k] - 1)]

(* the index labels of the anomalous samples, in series order *)
detectar_anomalias_zscore(series, z_thr) ==
  LET s == dropna(series.val)
      mu == Mean(s)
      sigma2 == Var(s)
  IN IF s = <<>> THEN <<>>
     ELSE IF ~IsNum(sigma2) \/ sigma2.n = 0 THEN <<>>
     ELSE LET A == {i \in 1..Len(series.val) :
                      IsNum(series.val[i]) /\ ZExceeds(series.val[i], mu, sigma2, z_thr)}
              I == IdxSeq(Len(series.val), A)
          IN [k \in 1..Len(I) |-> series.idx[I[k]]]

One == Int2Q(1)

(* the band excludes its bounds *)
BandStatus_exclusive(val, nominal, tol_perc, under, over) ==
  IF ~IsNum(val) THEN "none"
  ELSE IF RLe(val, RMul(nominal, RSub(One, tol_perc))) THEN under
  ELSE IF RLe(RMul(nominal, RAdd(One, tol_perc)), val) THEN over
  ELSE "ok"

BandStatus(val, nominal, tol_perc, under, over) ==
  IF ~IsNum(val) THEN "none"
  ELSE IF RLt(val, RMul(nominal, RSub(One, tol_perc))) THEN under
  ELSE IF RLt(RMul(nominal, RAdd(One, tol_perc)), val) THEN over
  ELSE "ok"

outside_limits(val, nominal, tol_perc) ==
  BandStatus(val, nominal, tol_perc, "subtensao", "sobretensao")

outside_limits_corrente(val, nominal, tol_perc) ==
  BandStatus(val, nominal, tol_perc, "subcorrente", "sobrecorrente")

outside_limits_power(val, nominal, tol_perc) ==
  BandStatus(val, nominal, tol_perc, "queda_potencia", "sobrecarga_potencia")

----------------------------------------------------------------------------
(* Output helpers. In every result the time series is `serie`, a sequence  *)
(* of [data, vals]: the formatted timestamp of the entry (key data_coleta, *)
(* data_inc or timestamp in the source) and its value per channel; the     *)
(* detected nominal level is meta.nivel_nominal.                           *)

(* strftime("%d/%m/%Y %H:%M:%S") *)
FmtSec(dt) == IF dt.k = "ts" THEN [k |-> "dmyHMS", n |-> dt.v, d |-> 1] ELSE None

(* strftime("%d/%m/%Y %H:%M"): the seconds are dropped *)
FmtMin(dt) == IF dt.k = "ts" THEN [k |-> "dmyHM", n |-> dt.v - (dt.v % 60), d |-> 1] ELSE None

(* None if pd.isna(x) else float(x) *)
NoneIfNa(x) == IF x.k = "num" THEN x ELSE None

(* _to_native on a leaf: a NaN float becomes None *)
_to_native(x) == IF x.k = "nan" THEN None ELSE x

Raised(err) == [status |-> "raised", error |-> err]

RECURSIVE Flatten(_)
Flatten(ss) == IF ss = <<>> THEN <<>> ELSE ss[1] \o Flatten(Tail(ss))

PeriodoInicio(df, Fmt(_)) ==
  IF ValidTimes(df) = {} THEN None ELSE Fmt(Ts(SetMin(ValidTimes(df))))

PeriodoFim(df, Fmt(_)) ==
  IF ValidTimes(df) = {} THEN None ELSE Fmt(Ts(SetMax(ValidTimes(df))))

(* r.get(f): None when the frame has no such column *)
RowGet(df, r, f) == IF f \in df.cols THEN r.c[f] ELSE None

----------------------------------------------------------------------------
(* Voltage analyzer, analise_tensao_rms.py *)

calcula_unbalance(r, fases) ==
  LET vals == dropna([i \in 1..Len(fases) |-> r.c[fases[i]]])
      avg == Mean(vals)
      devs == [i \in 1..Len(vals) |-> RAbs(RSub(vals[i], avg))]
  IN IF Len(vals) < 2 THEN NaN
     ELSE IF avg.n = 0 THEN NaN
     ELSE RMul(RDiv(SeqMax(devs), avg), Int2Q(100))

(* df[cols].corr(): Pearson over the rows where both columns are present;  *)
(* NaN when a sum of squared deviations is zero. Of a finite coefficient   *)
(* only the sign is kept.                                                  *)
Corr(df, a, b) ==
  LET I == IdxSeq(Len(df.rows), {i \in 1..Len(df.rows) : IsNum(df.rows[i].c[a]) /\ IsNum(df.rows[i].c[b])})
      xs == [k \in 1..Len(I) |-> df.rows[I[k]].c[a]]
      ys == [k \in 1..Len(I) |-> df.rows[I[k]].c[b]]
      mx == Mean(xs)
      my == Mean(ys)
      cov == RSum([k \in 1..Len(I) |-> RMul(RSub(xs[k], mx), RSub(ys[k], my))])
      sgn == IF cov.n < 0 THEN -1 ELSE 1
  IN IF Len(I) = 0 THEN NaN
     ELSE IF SqDev(xs).n = 0 \/ SqDev(ys).n = 0 THEN NaN
     ELSE [k |-> "corr", n |-> IF cov.n = 0 THEN 0 ELSE sgn, d |-> 1]

CorrCols == <<"tensao_1", "tensao_2", "tensao_3", "potencia_ativa_tot", "fator_potencia">>

Correlacoes(df) ==
  LET cc == {c \in Range(CorrCols) : c \in df.cols}
  IN [a \in cc |-> [b \in cc |-> Corr(df, a, b)]]

GraficoTensao(df) ==
  LET P(r) == [data |-> FmtSec(r.dt),
               vals |-> [c \in Range(Fases) \cup {"potencia_ativa_tot", "unbalance_perc"} |->
                           IF c = "unbalance_perc" THEN NoneIfNa(calcula_unbalance(r, Fases))
                           ELSE NoneIfNa(RowGet(df, r, c))]]
  IN SeqMap(P, df.rows)

EventsTensao(df, nivel, tol_perc) ==
  LET RowEvents(r) ==
        LET Ev(f) ==
              IF outside_limits(RowGet(df, r, f), nivel, tol_perc) \in {"subtensao", "sobretensao"}
              THEN <<[data |-> FmtSec(r.dt), fase |-> f,
                      valor |-> NoneIfNa(RowGet(df, r, f)),
                      tipo |-> outside_limits(RowGet(df, r, f), nivel, tol_perc)]>>
              ELSE <<>>
        IN Flatten(SeqMap(Ev, Fases))
  IN IF nivel.k = "null" THEN <<>> ELSE Flatten(SeqMap(RowEvents, df.rows))

IndexInts(labels) == [i \in 1..Len(labels) |-> labels[i].v]

analyze_records(recs, tol_perc, z_thr, degenerate) ==
  IF recs.shape = "null" THEN Raised("TypeError")
  ELSE IF recs.shape = "dict" THEN Raised("KeyError")
  ELSE
    LET rows == RowsTensao(recs.items)
        raw == DataFrame(rows)
    IN IF "data_coleta" \notin raw.cols THEN Raised("KeyError")
       ELSE
         LET ParseRow(r) == parse_dt(r["data_coleta"])
             df == Frame(rows, SeqMap(ParseRow, rows))
             nivel_detectado == escolher_nivel_nominal(df, Fases)
             tendencias == [f \in Range(Fases) |->
                              tendencia_linear_simples_tensao(Times(df), Col(df, f), degenerate)]
         IN IF \E f \in Range(Fases) : f \notin df.cols THEN Raised("KeyError")
            ELSE IF \E f \in Range(Fases) : tendencias[f].slope_per_s.k = "raise"
                 THEN Raised("LinAlgError")
            ELSE
              [status |-> "ok",
               meta |-> [registros |-> Len(df.rows),
                         periodo_inicio |-> PeriodoInicio(df, FmtSec),
                         periodo_fim |-> PeriodoFim(df, FmtSec),
                         nivel_nominal |-> nivel_detectado,
                         tolerancia_perc |-> tol_perc],
               tabela |-> estatisticas_por_fase(df, Fases),
               serie |-> GraficoTensao(df),
               tendencias |-> tendencias,
               anomalias |-> [f \in Range(Fases) |->
                                IndexInts(detectar_anomalias_zscore(Col(df, f), z_thr))],
               events |-> EventsTensao(df, nivel_detectado, tol_perc),
               correlacoes |-> Correlacoes(df)]

----------------------------------------------------------------------------
(* Current analyzer, analise_corrente_rms.py *)

NativeStats(t) ==
  LET N(e) == [Fase |-> e.Fase, media |-> _to_native(e.media), desvio |-> _to_native(e.desvio),
               min |-> _to_native(e.min), max |-> _to_native(e.max), Amostras |-> e.Amostras]
  IN SeqMap(N, t)

NativeTrend(t) == [slope_per_s |-> _to_native(t.slope_per_s), intercept |-> _to_native(t.intercept)]

GraficoCorrente(df) ==
  LET P(r) == [data |-> FmtMin(r.dt),
               vals |-> [c \in Range(FasesCorrente) |-> NoneIfNa(RowGet(df, r, c))]]
  IN SeqMap(P, df.rows)

EventsCorrente(df, nivel, tol_perc) ==
  LET RowEvents(r) ==
        LET Ev(f) ==
              IF outside_limits_corrente(RowGet(df, r, f), nivel, tol_perc)
                   \in {"subcorrente", "sobrecorrente"}
              THEN <<[data |-> FmtMin(r.dt), fase |-> f,
                      valor |-> NoneIfNa(RowGet(df, r, f)),
                      tipo |-> outside_limits_corrente(RowGet(df, r, f), nivel, tol_perc)]>>
              ELSE <<>>
        IN Flatten(SeqMap(Ev, FasesCorrente))
  IN IF nivel.k = "null" THEN <<>> ELSE Flatten(SeqMap(RowEvents, df.rows))

(* counts every row as parsed *)
CountValid_rows(df) == Len(df.rows)

(* df['data_inc_dt'].notna().sum() *)
CountValid(df) == Cardinality({i \in 1..Len(df.rows) : df.rows[i].dt.k = "ts"})

analyze_records_corrente(recs, tol_perc, z_thr) ==
  LET rows == _normalizar_input(recs)
      df == Frame(rows, parse_datetime_series(rows, "data_inc"))
      nivel_detectado == escolher_nivel_nominal_por_mediana(df, FasesCorrente)
  IN [status |-> "ok",
      meta |-> [registros |-> Len(df.rows),
                periodo_inicio |-> PeriodoInicio(df, FmtMin),
                periodo_fim |-> PeriodoFim(df, FmtMin),
                nivel_nominal |-> _to_native(nivel_detectado),
                tolerancia_perc |-> tol_perc,
                timestamps_parsed |-> CountValid(df),
                timestamps_invalid |-> Len(df.rows) - CountValid(df)],
      tabela |-> NativeStats(estatisticas_por_fase(df, FasesCorrente)),
      serie |-> GraficoCorrente(df),
      tendencias |-> [f \in Range(FasesCorrente) |->
                        NativeTrend(tendencia_linear_simples(Times(df), GetCol(df, f)))],
      anomalias |-> [f \in Range(FasesCorrente) |->
                       IndexInts(detectar_anomalias_zscore(GetCol(df, f), z_thr))],
      events |-> EventsCorrente(df, nivel_detectado, tol_perc)]

----------------------------------------------------------------------------
(* Power analyzer, analise_potencia_ativa_reativa.py *)

ComponentesCand ==
  FasesAtiva \o <<"potencia_ativa_tot">> \o FasesReat \o <<"potencia_reat_tot">>

Componentes(df) == LET P(c) == c \in df.cols IN SelectSeq(ComponentesCand, P)

estatisticas_por_componente(df, componentes) ==
  [i \in 1..Len(componentes) |-> StatsRow(componentes[i], GetCol(df, componentes[i]))]

GraficoPotencia(df) ==
  LET P(r) == [data |-> FmtMin(r.dt),
               vals |-> [c \in Range(Componentes(df)) |-> NoneIfNa(RowGet(df, r, c))]]
  IN SeqMap(P, df.rows)

EventsPotencia(df, nivel, tol_perc) ==
  LET Ev(r) ==
        IF outside_limits_power(RowGet(df, r, "potencia_ativa_tot"), nivel, tol_perc)
             \in {"queda_potencia", "sobrecarga_potencia"}
        THEN <<[data |-> FmtMin(r.dt), fase |-> "potencia_ativa_tot",
                valor |-> NoneIfNa(RowGet(df, r, "potencia_ativa_tot")),
                tipo |-> outside_limits_power(RowGet(df, r, "potencia_ativa_tot"), nivel, tol_perc)]>>
        ELSE <<>>
  IN IF nivel.k = "null" THEN <<>> ELSE Flatten(SeqMap(Ev, df.rows))

analyze_records_potencia(recs, tol_perc, z_thr) ==
  LET rows == _normalizar_input(recs)
      df == Frame(rows, parse_datetime_series(rows, "data_inc"))
      componentes == Componentes(df)
      nivel_nominal_ativa_tot == escolher_nivel_nominal_potencia_total(df)
  IN [status |-> "ok",
      meta |-> [registros |-> Len(df.rows),
                periodo_inicio |-> PeriodoInicio(df, FmtMin),
                periodo_fim |-> PeriodoFim(df, FmtMin),
                nivel_nominal |-> _to_native(nivel_nominal_ativa_tot),
                tolerancia_perc |-> tol_perc,
                timestamps_parsed |-> CountValid(df),
                timestamps_invalid |-> Len(df.rows) - CountValid(df)],
      tabela |-> NativeStats(estatisticas_por_componente(df, componentes)),
      serie |-> GraficoPotencia(df),
      tendencias |-> [c \in Range(componentes) |->
                        NativeTrend(tendencia_linear_simples(Times(df), GetCol(df, c)))],
      anomalias |-> [c \in Range(componentes) |->
                       IndexInts(detectar_anomalias_zscore(GetCol(df, c), z_thr))],
      events |-> EventsPotencia(df, nivel_nominal_ativa_tot, tol_perc)]

----------------------------------------------------------------------------
(* Demand analyzer, analise_demanda_perfil.py *)

NoField == "None"

_choose_demand_field(df, field_name) ==
  IF field_name # NoField /\ field_name \in df.cols THEN field_name
  ELSE IF "potencia_ativa_tot" \in df.cols THEN "potencia_ativa_tot"
  ELSE IF "potencia_ap_tot" \in df.cols THEN "potencia_ap_tot"
  ELSE NoField

(* df[fase_cols].sum(axis=1, min_count=1) of one row *)
RowSum(r, cols) ==
  LET vals == dropna([i \in 1..Len(cols) |-> r.c[cols[i]]])
  IN IF vals = <<>> THEN NaN ELSE RSum(vals)

_compute_demand_series(df, chosen_field) ==
  LET InCols(c) == c \in df.cols
      fase_cols == SelectSeq(FasesAtiva, InCols)
      alts == SelectSeq(AltDemanda, InCols)
      n == Len(df.rows)
  IN IF chosen_field # NoField /\ chosen_field \in df.cols THEN Col(df, chosen_field)
     ELSE IF fase_cols # <<>>
          THEN Series(RangeIndex(n), [i \in 1..n |-> RowSum(df.rows[i], fase_cols)])
     ELSE IF alts # <<>> THEN Col(df, alts[1])
     ELSE Series(RangeIndex(n), [i \in 1..n |-> NaN])

(* the source _compute_demand_series reads: a single column, the sum of    *)
(* the phase columns that are present ("soma_fases"), or nothing           *)
DemandSource(df, chosen_field) ==
  LET InCols(c) == c \in df.cols
      fase_cols == SelectSeq(FasesAtiva, InCols)
      alts == SelectSeq(AltDemanda, InCols)
  IN IF chosen_field # NoField /\ chosen_field \in df.cols THEN chosen_field
     ELSE IF fase_cols # <<>> THEN "soma_fases"
     ELSE IF alts # <<>> THEN alts[1]
     ELSE NoField

(* width in seconds of a resampling bucket: 'H' for agg = 'hour', else 'D' *)
BucketWidth(agg) == IF agg = "hour" THEN 3600 ELSE 86400

Floor(t, w) == t - (t % w)

BucketMean(df, demand_series, b, w) ==
  LET I == IdxSeq(Len(df.rows), {i \in 1..Len(df.rows) :
                                   df.rows[i].dt.k = "ts" /\ Floor(df.rows[i].dt.v, w) = b})
      vals == dropna([k \in 1..Len(I) |-> demand_series.val[I[k]]])
  IN IF vals = <<>> THEN NaN ELSE Mean(vals)

(* tmp['val'].resample(rule).mean(): every bucket from the first to the    *)
(* last sample, NaN for a bucket without a value                           *)
aggregate_time_series(df, demand_series, agg) ==
  IF ValidTimes(df) = {} THEN EmptySeries
  ELSE LET w == BucketWidth(agg)
           first == Floor(SetMin(ValidTimes(df)), w)
           last == Floor(SetMax(ValidTimes(df)), w)
           n == (last - first) \div w + 1
       IN Series([k \in 1..n |-> Ts(first + (k - 1) * w)],
                 [k \in 1..n |-> BucketMean(df, demand_series, first + (k - 1) * w, w)])

TimeSeriesAgg(series_agg) ==
  [k \in 1..Len(series_agg.idx) |->
     [data |-> FmtMin(series_agg.idx[k]),
      vals |-> [c \in {"agregada"} |-> NoneIfNa(series_agg.val[k])]]]

RawSamples(df, demand_series) ==
  IdxSeq(Len(df.rows), {i \in 1..Len(df.rows) :
                          df.rows[i].dt.k = "ts" /\ IsNum(demand_series.val[i])})

GroupMean(df, demand_series, Key(_), g) ==
  LET I == RawSamples(df, demand_series)
      G == SelectSeq(I, LAMBDA i : Key(df.rows[i].dt.v) = g)
  IN IF G = <<>> THEN None ELSE Mean([k \in 1..Len(G) |-> demand_series.val[G[k]]])

HourOf(t) == (t % 86400) \div 3600

(* pandas dayofweek, Monday = 0; second 0 of the model is a Wednesday      *)
(* (01/01/2025 00:00:00)                                                   *)
DayOfWeek(t) == (2 + t \div 86400) % 7

PerfilHorario(df, demand_series) ==
  IF RawSamples(df, demand_series) = <<>> THEN <<>>
  ELSE [h \in 1..24 |-> [hour |-> h - 1, media |-> GroupMean(df, demand_series, HourOf, h - 1)]]

PerfilDiario(df, demand_series) ==
  IF RawSamples(df, demand_series) = <<>> THEN <<>>
  ELSE [d \in 1..7 |-> [dayofweek |-> d - 1, media |-> GroupMean(df, demand_series, DayOfWeek, d - 1)]]

RECURSIVE InsertDesc(_, _)
InsertDesc(s, x) ==
  IF s = <<>> THEN <<x>>
  ELSE IF RLt(s[1].valor, x.valor) THEN <<x>> \o s
  ELSE <<s[1]>> \o InsertDesc(Tail(s), x)

RECURSIVE SortDesc(_)
SortDesc(s) == IF s = <<>> THEN <<>> ELSE InsertDesc(SortDesc(SubSeq(s, 1, Len(s) - 1)), s[Len(s)])

TopN == 5

(* the first n buckets with a value, in time order *)
top_n_picos_first(series_agg, n) ==
  LET HasVal(e) == e.valor.k = "num"
      items == [k \in 1..Len(series_agg.idx) |->
                  [timestamp |-> FmtMin(series_agg.idx[k]), valor |-> series_agg.val[k]]]
      kept == SelectSeq(items, HasVal)
  IN SubSeq(kept, 1, IF Len(kept) < n THEN Len(kept) ELSE n)

top_n_picos(series_agg, n) ==
  LET HasVal(e) == e.valor.k = "num"
      items == [k \in 1..Len(series_agg.idx) |->
                  [timestamp |-> FmtMin(series_agg.idx[k]), valor |-> series_agg.val[k]]]
      sorted == SortDesc(SelectSeq(items, HasVal))
  IN SubSeq(sorted, 1, IF Len(sorted) < n THEN Len(sorted) ELSE n)

EventsDemanda(series_agg, tol_perc) ==
  LET s == dropna(series_agg.val)
      nominal == Median(s)
      Ev(k) ==
        LET st == BandStatus(series_agg.val[k], nominal, tol_perc, "queda_demanda", "pico_demanda")
        IN IF st \in {"queda_demanda", "pico_demanda"}
           THEN <<[data |-> FmtMin(series_agg.idx[k]), fase |-> "agregada",
                   valor |-> series_agg.val[k], tipo |-> st]>>
           ELSE <<>>
  IN IF s = <<>> THEN <<>>
     ELSE Flatten([k \in 1..Len(series_agg.val) |-> Ev(k)])

analyze_records_demanda(recs, field_name, agg, tol_perc, z_thr) ==
  LET rows == _normalizar_input(recs)
      df == Frame(rows, parse_datetime_series(rows, "data_inc"))
      chosen == _choose_demand_field(df, field_name)
      demanda_series == _compute_demand_series(df, chosen)
      s == dropna(demanda_series.val)
      series_agg == aggregate_time_series(df, demanda_series, agg)
      index_agg == Series(RangeIndex(Len(series_agg.idx)), series_agg.idx)
      anomalias == detectar_anomalias_zscore(series_agg, z_thr)
  IN (* int(i) of a Timestamp index label raises TypeError *)
     IF \E k \in 1..Len(anomalias) : anomalias[k].k # "i" THEN Raised("TypeError")
     ELSE
     [status |-> "ok",
      meta |-> [registros |-> Len(df.rows),
                periodo_inicio |-> PeriodoInicio(df, FmtMin),
                periodo_fim |-> PeriodoFim(df, FmtMin),
                field_used |-> IF chosen # NoField THEN chosen ELSE "soma_fases",
                tolerancia_perc |-> tol_perc,
                timestamps_parsed |-> CountValid(df),
                timestamps_invalid |-> Len(df.rows) - CountValid(df)],
      tabela |-> [media |-> IF s = <<>> THEN None ELSE _to_native(Mean(s)),
                  desvio |-> IF s = <<>> THEN None ELSE _to_native(Std(s)),
                  min |-> IF s = <<>> THEN None ELSE _to_native(SeqMin(s)),
                  max |-> IF s = <<>> THEN None ELSE _to_native(SeqMax(s)),
                  Amostras |-> Len(s)],
      perfil_horario |-> PerfilHorario(df, demanda_series),
      perfil_diario |-> PerfilDiario(df, demanda_series),
      serie |-> TimeSeriesAgg(series_agg),
      picos |-> top_n_picos(series_agg, TopN),
      tendencias |-> [c \in {"agregada"} |->
                        NativeTrend(tendencia_linear_simples(index_agg, series_agg))],
      anomalias |-> [c \in {"agregada"} |-> IndexInts(anomalias)],
      events |-> EventsDemanda(series_agg, tol_perc)]

----------------------------------------------------------------------------
(* Explored inputs *)

NonDict == Item("nondict", EmptyRec)

TensaoRec(ts, v1, v2, v3) ==
  Rec([data_coleta |-> ts, tensao_1 |-> v1, tensao_2 |-> v2, tensao_3 |-> v3])

ItemsTensao ==
  { Item("env",  TensaoRec(BrCell(90), NumCell(220), NumCell(220), NumCell(220))),
    Item("env",  TensaoRec(BrCell(30), NumCell(198), NumCell(242), NumCell(220))),
    Item("env",  TensaoRec(BrCell(30), NumCell(197), NumCell(243), NumStrCell(221))),
    Item("env",  TensaoRec(StrCell, NullCell, StrCell, NumCell(350))),
    Item("bare", TensaoRec(BrCell(60), NumCell(218), NumCell(221), NumCell(350))),
    Item("env",  TensaoRec(BrCell(60), NumCell(218), NumCell(221), NumCell(350))),
    Item("env",  TensaoRec(BrMinCell(60), NumCell(110), AbsentCell, AbsentCell)),
    Item("env",  Rec([data_coleta |-> NullCell, tensao_1 |-> NullCell, tensao_2 |-> NullCell,
                      tensao_3 |-> NullCell, potencia_ativa_tot |-> NumCell(500)])) }

CorrenteRec(ts, v1, v2, v3) ==
  Rec([data_inc |-> ts, corrente_1 |-> v1, corrente_2 |-> v2, corrente_3 |-> v3])

ItemsCorrente ==
  { Item("env",  CorrenteRec(IsoCell(90), NumCell(10), NumCell(10), NumCell(10))),
    Item("bare", CorrenteRec(IsoCell(30), NumCell(9), NumCell(11), NumCell(10))),
    Item("bare", CorrenteRec(IsoCell(30), NumCell(8), NumCell(12), NumStrCell(10))),
    Item("env",  CorrenteRec(StrCell, NullCell, StrCell, NumCell(100))),
    Item("env",  CorrenteRec(IsoCell(60), NumCell(100), AbsentCell, AbsentCell)),
    Item("bare", Rec([data_inc |-> NullCell, corrente_1 |-> NullCell, corrente_2 |-> NullCell,
                      corrente_3 |-> NullCell, tensao_1 |-> NumCell(220)])),
    Item("bare", EmptyRec),
    Item("badenv", CorrenteRec(IsoCell(60), NumCell(10), NumCell(10), NumCell(10))),
    NonDict }

(* three records given in every order: by time they are Sample30,          *)
(* Sample60, Sample90, and the earliest has no value for corrente_2        *)
Sample90 == Item("env", CorrenteRec(IsoCell(90), NumCell(0), NumCell(10), NumCell(10)))

Sample30 == Item("bare", CorrenteRec(IsoCell(30), NumCell(50), NullCell, NumCell(10)))

Sample60 == Item("env", CorrenteRec(IsoCell(60), NumCell(100), NumCell(20), NumCell(10)))

ItemsPotencia ==
  { Item("env",  Rec([data_inc |-> IsoCell(90), potencia_ativa_tot |-> NumCell(100),
                      potencia_ativa_1 |-> NumCell(30), potencia_reat_tot |-> NumCell(5)])),
    Item("bare", Rec([data_inc |-> IsoCell(30), potencia_ativa_tot |-> NumCell(90)])),
    Item("bare", Rec([data_inc |-> IsoCell(30), potencia_ativa_tot |-> NumCell(110),
                      potencia_reat_1 |-> NumStrCell(3)])),
    Item("env",  Rec([data_inc |-> StrCell, potencia_ativa_tot |-> NullCell,
                      potencia_ativa_2 |-> NumCell(50)])),
    Item("bare", Rec([data_inc |-> IsoCell(60), potencia_ativa_tot |-> NumCell(111)])),
    Item("bare", Rec([data_inc |-> IsoCell(60), potencia_ativa_tot |-> NumCell(89)])),
    Item("env",  Rec([potencia_ativa_tot |-> NumCell(-100)])),
    NonDict }

(* records at 08:00, 08:15 and 10:00, in every input order *)
At0800 == Item("env", Rec([data_inc |-> IsoCell(28800), potencia_ativa_tot |-> NumCell(100)]))

At0815 == Item("bare", Rec([data_inc |-> IsoCell(29730), potencia_ativa_tot |-> NumCell(200)]))

At1000 == Item("bare", Rec([data_inc |-> IsoCell(36000), potencia_ativa_tot |-> NumCell(90)]))

(* 28800 = 08:00:00, 29730 = 08:15:30, 32400 = 09:00:00, 36000 = 10:00:00 *)
ItemsDemanda ==
  { At0800, At0815, At1000,
    Item("env",  Rec([data_inc |-> StrCell, potencia_ativa_tot |-> NumCell(500)])),
    Item("bare", Rec([data_inc |-> IsoCell(32400), potencia_ativa_1 |-> NumCell(10),
                      potencia_ativa_2 |-> NumCell(20)])),
    Item("env",  Rec([data_inc |-> IsoCell(36000), potencia_ap_tot |-> NumCell(70),
                      potencia_ativa_1 |-> NumCell(1), potencia_ativa_2 |-> NumCell(2),
                      potencia_ativa_3 |-> NumCell(3)])),
    Item("bare", Rec([data_inc |-> IsoCell(28800), potencia_ativa_tot |-> NullCell,
                      potencia_ap_1 |-> NumCell(40)])),
    Item("env",  Rec([data_inc |-> IsoCell(32400), potencia_ap_1 |-> NumCell(40)])),
    NonDict }

(* one record per hour at 08:00 .. 13:00 and 15:00 (none at 14:00), given   *)
(* in time order and in a scrambled order                                  *)
HourSample(h, v) ==
  Item("bare", Rec([data_inc |-> IsoCell(h * 3600), potencia_ativa_tot |-> NumCell(v)]))

PeakHours ==
  { Input("list", <<HourSample(8, 100), HourSample(9, 300), HourSample(10, 90),
                    HourSample(11, 300), HourSample(12, 50), HourSample(13, 200),
                    HourSample(15, 120)>>),
    Input("list", <<HourSample(13, 200), HourSample(15, 120), HourSample(8, 100),
                    HourSample(12, 50), HourSample(11, 300), HourSample(10, 90),
                    HourSample(9, 300)>>) }

Batches(items) == UNION {[1..n -> items] : n \in 0..MaxLen}

ThreeHours ==
  {Input("list", b) : b \in {x \in [1..3 -> {At0800, At0815, At1000}] :
                               \A i, j \in 1..3 : i # j => x[i] # x[j]}}

ThreeSamples ==
  {Input("list", b) : b \in {x \in [1..3 -> {Sample90, Sample30, Sample60}] :
                               \A i, j \in 1..3 : i # j => x[i] # x[j]}}

(* null, a JSON value that is neither a mapping nor a list ("scalar"), one *)
(* mapping, or a list                                                      *)
Inputs(items) ==
  {Input("null", <<>>), Input("scalar", <<>>)}
    \cup {Input("dict", <<it>>) : it \in {x \in items : IsDict(x)}}
    \cup {Input("list", b) : b \in Batches(items)}

(* tolerance fraction and z threshold of a call; 1/10 and 3 are the defaults *)
(* (two distinct samples both have |z| = 0.707, above a threshold of 1/2)     *)
Params3 ==
  { [tol_perc |-> Q(1, 10), z_thr |-> Int2Q(3)],
    [tol_perc |-> Q(1, 2),  z_thr |-> Q(1, 2)],
    [tol_perc |-> Int2Q(0), z_thr |-> Int2Q(3)] }

ParamsDemanda ==
  { [tol_perc |-> Q(1, 10), z_thr |-> Int2Q(3), field_name |-> "potencia_ativa_tot", agg |-> "hour"],
    [tol_perc |-> Q(1, 2),  z_thr |-> Q(1, 2), field_name |-> NoField, agg |-> "hour"],
    [tol_perc |-> Int2Q(0), z_thr |-> Int2Q(3), field_name |-> "potencia_ap_tot", agg |-> "day"],
    [tol_perc |-> Q(1, 10), z_thr |-> Int2Q(3), field_name |-> "potencia_ativa_tot", agg |-> "week"] }

----------------------------------------------------------------------------
(* The calls *)

NoResult == [status |-> "none"]

InputsTensao ==
  {x \in Inputs(ItemsTensao) :
     x.shape # "scalar" /\ \A i \in 1..Len(x.items) : IsDict(x.items[i])}

(* A request has arrived for one analyzer with its records and parameters  *)
(* (app.py, the /analise_* routes); the call has not run yet.              *)
Init ==
  /\ pc = "idle"
  /\ result = NoResult
  /\ \/ analyzer = "tensao" /\ records \in InputsTensao /\ params \in Params3
     \/ analyzer = "corrente" /\ records \in Inputs(ItemsCorrente) \cup ThreeSamples
          /\ params \in Params3
     \/ analyzer = "potencia" /\ records \in Inputs(ItemsPotencia) /\ params \in Params3
     \/ analyzer = "demanda" /\ records \in Inputs(ItemsDemanda) \cup ThreeHours \cup PeakHours
          /\ params \in ParamsDemanda

(* the degenerate fit of the voltage analyzer either raises or yields NaN *)
analisar_dados_json ==
  /\ pc = "idle"
  /\ analyzer = "tensao"
  /\ LET r == analyze_records(records, params.tol_perc, params.z_thr, "raise")
     IN result' \in (IF r = Raised("LinAlgError")
                     THEN {r, analyze_records(records, params.tol_perc, params.z_thr, "nan")}
                     ELSE {r})
  /\ pc' = "done"
  /\ UNCHANGED <<analyzer, records, params>>

analisar_corrente_json ==
  /\ pc = "idle"
  /\ analyzer = "corrente"
  /\ result' = analyze_records_corrente(records, params.tol_perc, params.z_thr)
  /\ pc' = "done"
  /\ UNCHANGED <<analyzer, records, params>>

analisar_potencia_json ==
  /\ pc = "idle"
  /\ analyzer = "potencia"
  /\ result' = analyze_records_potencia(records, params.tol_perc, params.z_thr)
  /\ pc' = "done"
  /\ UNCHANGED <<analyzer, records, params>>

analisar_demanda_json ==
  /\ pc = "idle"
  /\ analyzer = "demanda"
  /\ result' = analyze_records_demanda(records, params.field_name, params.agg,
                                       params.tol_perc, params.z_thr)
  /\ pc' = "done"
  /\ UNCHANGED <<analyzer, records, params>>

Next ==
  \/ analisar_dados_json
  \/ analisar_corrente_json
  \/ analisar_potencia_json
  \/ analisar_demanda_json

Spec == Init /\ [][Next]_vars

----------------------------------------------------------------------------
(* The anomaly detector alone, on one channel of up to MaxSerie samples *)

SerieVals == {Int2Q(10), Int2Q(100), NaN}

InitZ ==
  /\ pc = "idle"
  /\ analyzer = "zscore"
  /\ records \in UNION {[1..n -> SerieVals] : n \in 0..MaxSerie}
  /\ params \in {[z_thr |-> Int2Q(3)], [z_thr |-> Q(3, 2)], [z_thr |-> Int2Q(1)]}
  /\ result = NoResult

DetectarAnomalias ==
  /\ pc = "idle"
  /\ analyzer = "zscore"
  /\ result' = [status |-> "ok",
                anomalias |-> IndexInts(detectar_anomalias_zscore(
                                Series(RangeIndex(Len(records)), records), params.z_thr))]
  /\ pc' = "done"
  /\ UNCHANGED <<analyzer, records, params>>

NextZ == DetectarAnomalias

SpecZ == InitZ /\ [][NextZ]_vars

----------------------------------------------------------------------------
(* Repeated calls in one process: a call, then possibly a call of any      *)
(* analyzer on other records, then the first call again. The process keeps *)
(* its numeric library, so the outcome of a degenerate voltage fit is      *)
(* fixed when the process starts (params.lapack). result is the sequence   *)
(* of the values returned so far.                                          *)

Call(a, recs, p) ==
  IF a = "tensao" THEN analyze_records(recs, p.tol_perc, p.z_thr, p.lapack)
  ELSE IF a = "corrente" THEN analyze_records_corrente(recs, p.tol_perc, p.z_thr)
  ELSE IF a = "potencia" THEN analyze_records_potencia(recs, p.tol_perc, p.z_thr)
  ELSE analyze_records_demanda(recs, p.field_name, p.agg, p.tol_perc, p.z_thr)

(* the call leaves its normalised rows in the list the caller holds *)
RecordsAfter_normalised(a, recs) ==
  IF a = "tensao" \/ recs.shape # "list" THEN recs
  ELSE Input("list", [i \in 1..Len(SelectSeq(recs.items, IsDict)) |->
                        Item("bare", SelectSeq(recs.items, IsDict)[i].rec)])

(* the records object the caller holds once the call has returned: the     *)
(* rows are copied into the data frame, pd.DataFrame(rows), and every      *)
(* later assignment is made on the frame                                   *)
RecordsAfter(a, recs) == recs

WithLapack(ps) ==
  {[tol_perc |-> p.tol_perc, z_thr |-> p.z_thr, lapack |-> b] : p \in ps, b \in {"raise", "nan"}}

RepeatItems(a) ==
  IF a = "tensao"
  THEN { Item("env",  TensaoRec(BrCell(90), NumCell(220), NumCell(220), NumCell(220))),
         Item("env",  TensaoRec(BrCell(30), NumCell(198), NumCell(242), NumCell(220))),
         Item("env",  TensaoRec(BrCell(30), NumCell(197), NumCell(243), NumStrCell(221))) }
  ELSE IF a = "corrente"
  THEN { Item("env",  CorrenteRec(IsoCell(90), NumCell(10), NumCell(10), NumCell(10))),
         Item("bare", CorrenteRec(IsoCell(30), NumCell(9), NumCell(11), NumCell(10))),
         NonDict }
  ELSE IF a = "potencia"
  THEN { Item("env",  Rec([data_inc |-> IsoCell(90), potencia_ativa_tot |-> NumCell(100),
                           potencia_ativa_1 |-> NumCell(30), potencia_reat_tot |-> NumCell(5)])),
         Item("bare", Rec([data_inc |-> IsoCell(30), potencia_ativa_tot |-> NumCell(90)])),
         NonDict }
  ELSE { At0800, At1000, NonDict }

(* the calls that may be made between the two *)
Between ==
  { [analyzer |-> "tensao",
     records |-> Input("list", <<Item("env", TensaoRec(BrCell(60), NumCell(218), NumCell(221),
                                                        NumCell(350)))>>),
     params |-> [tol_perc |-> Q(1, 10), z_thr |-> Int2Q(3)]],
    [analyzer |-> "corrente",
     records |-> Input("list", <<Item("env", CorrenteRec(StrCell, NullCell, StrCell, NumCell(100))),
                                 NonDict>>),
     params |-> [tol_perc |-> Int2Q(0), z_thr |-> Int2Q(3)]],
    [analyzer |-> "potencia",
     records |-> Input("dict", <<Item("env", Rec([potencia_ativa_tot |-> NumCell(-100)]))>>),
     params |-> [tol_perc |-> Q(1, 2), z_thr |-> Q(1, 2)]],
    [analyzer |-> "demanda",
     records |-> Input("null", <<>>),
     params |-> [tol_perc |-> Q(1, 10), z_thr |-> Int2Q(3), field_name |-> NoField,
                 agg |-> "hour"]] }

InitRepeat ==
  /\ pc = "idle"
  /\ result = <<>>
  /\ \/ analyzer = "tensao" /\ params \in WithLapack(Params3)
     \/ analyzer \in {"corrente", "potencia"} /\ params \in Params3
     \/ analyzer = "demanda" /\ params \in ParamsDemanda
  /\ records \in {x \in Inputs(RepeatItems(analyzer)) : analyzer = "tensao" => x.shape = "list"}

FirstCall ==
  /\ pc = "idle"
  /\ result' = <<Call(analyzer, records, params)>>
  /\ records' = RecordsAfter(analyzer, records)
  /\ pc' = "first"
  /\ UNCHANGED <<analyzer, params>>

OtherCall ==
  /\ pc = "first"
  /\ \E c \in Between :
       result' = Append(result, Call(c.analyzer, c.records,
                                     IF c.analyzer = "tensao"
                                     THEN [tol_perc |-> c.params.tol_perc, z_thr |-> c.params.z_thr,
                                           lapack |-> IF analyzer = "tensao" THEN params.lapack
                                                      ELSE "raise"]
                                     ELSE c.params))
  /\ pc' = "between"
  /\ UNCHANGED <<analyzer, records, params>>

SecondCall ==
  /\ pc \in {"first", "between"}
  /\ result' = Append(result, Call(analyzer, records, params))
  /\ records' = RecordsAfter(analyzer, records)
  /\ pc' = "again"
  /\ UNCHANGED <<analyzer, params>>

NextRepeat == FirstCall \/ OtherCall \/ SecondCall

SpecRepeat == InitRepeat /\ [][NextRepeat]_vars

----------------------------------------------------------------------------
(* Properties *)

Completed == pc = "done" /\ result.status = "ok"

DictItems(recs) == SelectSeq(recs.items, IsDict)

StatRows(r) == IF analyzer = "demanda" THEN <<r.tabela>> ELSE r.tabela

IsNullTrend(t) == t.slope_per_s.k = "null" /\ t.intercept.k = "null"

EmptyInput == records.shape = "null" \/ (records.shape = "list" /\ records.items = <<>>)

EmptyResult(r) ==
  /\ r.status = "ok"
  /\ r.meta.registros = 0
  /\ r.events = <<>>
  /\ \A c \in DOMAIN r.anomalias : r.anomalias[c] = <<>>
  /\ \A c \in DOMAIN r.tendencias : IsNullTrend(r.tendencias[c])
  /\ \A k \in 1..Len(StatRows(r)) :
       LET e == StatRows(r)[k]
       IN e.media.k = "null" /\ e.desvio.k = "null" /\ e.min.k = "null" /\ e.max.k = "null"
          /\ e.Amostras = 0

(* C1: for each of the four analyzers a call with null or with the empty   *)
(* list raises no error and returns registros = 0, no event, no anomaly    *)
(* index and no non-null statistic or trend.                               *)
C1_NullBatch ==
  (pc = "done" /\ analyzer \in {"tensao", "corrente", "potencia", "demanda"} /\ EmptyInput)
    => EmptyResult(result)

BandChannels ==
  IF analyzer = "tensao" THEN Fases
  ELSE IF analyzer = "corrente" THEN FasesCorrente
  ELSE <<"potencia_ativa_tot">>

UnderTag ==
  IF analyzer = "tensao" THEN "subtensao"
  ELSE IF analyzer = "corrente" THEN "subcorrente" ELSE "queda_potencia"

OverTag ==
  IF analyzer = "tensao" THEN "sobretensao"
  ELSE IF analyzer = "corrente" THEN "sobrecorrente" ELSE "sobrecarga_potencia"

(* v < N * (1 - tol) and v > N * (1 + tol), all denominators positive *)
Below(v, N, tol) == v.n * N.d * tol.d < N.n * (tol.d - tol.n) * v.d

Above(v, N, tol) == v.n * N.d * tol.d > N.n * (tol.d + tol.n) * v.d

ExpectedEvents(r) ==
  LET N == r.meta.nivel_nominal
      tol == r.meta.tolerancia_perc
      OfSample(i, j) ==
        LET v == r.serie[i].vals[BandChannels[j]]
            ev(tag) == <<[data |-> r.serie[i].data, fase |-> BandChannels[j],
                          valor |-> v, tipo |-> tag]>>
        IN IF v.k # "num" THEN <<>>
           ELSE IF Below(v, N, tol) THEN ev(UnderTag)
           ELSE IF Above(v, N, tol) THEN ev(OverTag)
           ELSE <<>>
  IN Flatten([i \in 1..Len(r.serie) |->
                Flatten([j \in 1..Len(BandChannels) |-> OfSample(i, j)])])

(* C2: in the voltage, current and power analyzers, with a detected        *)
(* nominal level N and tolerance tol, every sample with a non-missing v    *)
(* yields exactly one 'under' event iff v < N(1-tol), exactly one 'over'   *)
(* event iff v > N(1+tol), and no event inside the inclusive band.         *)
C2_ToleranceBand ==
  (Completed /\ analyzer \in {"tensao", "corrente", "potencia"}
     /\ result.meta.nivel_nominal.k = "num")
    => result.events = ExpectedEvents(result)

(* nominal 220, tol 0.10: 198 and 242 give no event, 197 and 243 do *)
C2_Witness ==
  /\ Completed /\ analyzer = "tensao"
  /\ result.meta.nivel_nominal = Int2Q(220)
  /\ params.tol_perc = Q(1, 10)
  /\ \E i \in 1..Len(result.serie) :
       /\ result.serie[i].vals["tensao_1"] = Int2Q(198)
       /\ result.serie[i].vals["tensao_2"] = Int2Q(242)
  /\ \E k \in 1..Len(result.events) :
       result.events[k].valor = Int2Q(197) /\ result.events[k].tipo = "subtensao"
  /\ \E k \in 1..Len(result.events) :
       result.events[k].valor = Int2Q(243) /\ result.events[k].tipo = "sobretensao"
  /\ \A k \in 1..Len(result.events) : result.events[k].valor \notin {Int2Q(198), Int2Q(242)}

GroupChannels ==
  IF analyzer = "demanda" THEN {"agregada"} ELSE Range(BandChannels)

GroupMissing(r) ==
  \A i \in 1..Len(r.serie) : \A c \in GroupChannels :
    c \notin DOMAIN r.serie[i].vals \/ r.serie[i].vals[c].k = "null"

(* C3: events_out_of_limit is non-empty only if a nominal level was        *)
(* detected; when every sample of the channel group is missing the nominal *)
(* level is null and there is no event, whatever the other fields hold.    *)
C3_EventGating ==
  Completed /\ analyzer \in {"tensao", "corrente", "potencia", "demanda"} =>
    IF analyzer = "demanda"
    THEN GroupMissing(result) => result.events = <<>>
    ELSE /\ result.events # <<>> => result.meta.nivel_nominal.k = "num"
         /\ GroupMissing(result) =>
              result.meta.nivel_nominal.k = "null" /\ result.events = <<>>

C3_Witness ==
  /\ Completed /\ analyzer = "tensao"
  /\ result.meta.registros >= 1
  /\ GroupMissing(result)
  /\ \E i \in 1..Len(result.serie) : result.serie[i].vals["potencia_ativa_tot"].k = "num"
  /\ result.meta.nivel_nominal.k = "null"
  /\ result.events = <<>>

Serie5 == <<Int2Q(10), Int2Q(10), Int2Q(10), Int2Q(10), Int2Q(100)>>

(* C4 as stated: for the channel values [10, 10, 10, 10, 100] and the      *)
(* default threshold 3.0 the detector returns exactly the index of 100.    *)
C4_Original ==
  (pc = "done" /\ analyzer = "zscore" /\ records = Serie5 /\ params.z_thr = Int2Q(3))
    => result.anomalias = <<4>>

(* C4 amended: for [10, 10, 10, 10, 100] the z-score of 100 is             *)
(* 72 / sqrt(1620), about 1.79, so the default threshold 3.0 returns no    *)
(* index; the threshold 1.0 returns exactly the index of 100.              *)
C4_Amended ==
  (pc = "done" /\ analyzer = "zscore" /\ records = Serie5)
    => /\ params.z_thr = Int2Q(3) => result.anomalias = <<>>
       /\ params.z_thr = Int2Q(1) => result.anomalias = <<4>>

C4_Witness ==
  /\ pc = "done" /\ analyzer = "zscore" /\ records = Serie5
  /\ params.z_thr = Int2Q(3)
  /\ result.anomalias = <<>>

ValidInputTimes ==
  {DictItems(records)[i].rec["data_inc"].v :
     i \in {j \in 1..Len(DictItems(records)) : DictItems(records)[j].rec["data_inc"].k = "iso"}}

HourBuckets == {Floor(t, 3600) : t \in ValidInputTimes}

(* C5 as stated: with hourly aggregation time_series_agg has one entry per *)
(* hour bucket that holds a sample and no entry for a bucket without one.  *)
C5_OmitsEmptyBuckets ==
  (Completed /\ analyzer = "demanda" /\ params.agg = "hour") =>
    /\ Len(result.serie) = Cardinality(HourBuckets)
    /\ \A k \in 1..Len(result.serie) : result.serie[k].data.n \in HourBuckets

(* the record of the scenario, at 00:01:00 of the first day *)
BareScenario ==
  Input("list", <<Item("bare", TensaoRec(BrCell(60), NumCell(218), NumCell(221), NumCell(350)))>>)

(* C6: the voltage analyzer called with the one-element list holding the   *)
(* bare record {tensao_1: 218, tensao_2: 221, tensao_3: 350, data_coleta}  *)
(* returns nivel_nominal_detectado = 220 and exactly one event, for        *)
(* tensao_3, of type 'sobretensao'.                                        *)
C6_BareScenario ==
  (pc = "done" /\ analyzer = "tensao" /\ records = BareScenario
     /\ params.tol_perc = Q(1, 10))
    => /\ result.status = "ok"
       /\ result.meta.nivel_nominal = Int2Q(220)
       /\ Len(result.events) = 1
       /\ result.events[1].fase = "tensao_3"
       /\ result.events[1].tipo = "sobretensao"

(* C7: for every analyzer a batch of exactly one record yields a null      *)
(* slope and intercept for every channel and no anomaly index.             *)
C7_SingleRecord ==
  (pc = "done" /\ analyzer \in {"tensao", "corrente", "potencia", "demanda"}
     /\ records.shape = "list" /\ Len(records.items) = 1 /\ IsDict(records.items[1]))
    => /\ result.status = "ok"
       /\ \A c \in DOMAIN result.tendencias : IsNullTrend(result.tendencias[c])
       /\ \A c \in DOMAIN result.anomalias : result.anomalias[c] = <<>>

NumericLeaves(r) ==
  UNION {
    IF "nivel_nominal" \in DOMAIN r.meta THEN {r.meta.nivel_nominal} ELSE {},
    UNION {{StatRows(r)[k].media, StatRows(r)[k].desvio, StatRows(r)[k].min, StatRows(r)[k].max} :
             k \in 1..Len(StatRows(r))},
    UNION {{r.serie[i].vals[c] : c \in DOMAIN r.serie[i].vals} : i \in 1..Len(r.serie)},
    UNION {{r.tendencias[c].slope_per_s, r.tendencias[c].intercept} : c \in DOMAIN r.tendencias},
    {r.events[k].valor : k \in 1..Len(r.events)},
    IF "correlacoes" \in DOMAIN r
    THEN UNION {{r.correlacoes[a][b] : b \in DOMAIN r.correlacoes[a]} : a \in DOMAIN r.correlacoes}
    ELSE {},
    IF "picos" \in DOMAIN r
    THEN {r.picos[k].valor : k \in 1..Len(r.picos)}
           \cup {r.perfil_horario[k].media : k \in 1..Len(r.perfil_horario)}
           \cup {r.perfil_diario[k].media : k \in 1..Len(r.perfil_diario)}
    ELSE {} }

(* C8: in the result of every analyzer every numeric field is a finite     *)
(* number or null; no NaN appears anywhere in the returned structure.      *)
C8_NoNaN ==
  (Completed /\ analyzer \in {"tensao", "corrente", "potencia", "demanda"})
    => \A x \in NumericLeaves(result) : x.k # "nan"

InputCount(f) ==
  Cardinality({i \in 1..Len(DictItems(records)) :
                 DictItems(records)[i].rec[f].k \in {"num", "numstr"}})

SerieCount(r, f) ==
  Cardinality({i \in 1..Len(r.serie) :
                 f \in DOMAIN r.serie[i].vals /\ r.serie[i].vals[f].k = "num"})

(* C9: for every channel of a statistics table, Amostras is the number of  *)
(* records of the batch whose value for that channel is present and        *)
(* numeric, whatever the other channels and the timestamp of the record    *)
(* are. The batch is the analyzer's frame, one row per time series entry;  *)
(* for the current and power analyzers it is also counted on the input.    *)
C9_Amostras ==
  (Completed /\ analyzer \in {"tensao", "corrente", "potencia"}) =>
    \A k \in 1..Len(result.tabela) :
      /\ result.tabela[k].Amostras = SerieCount(result, result.tabela[k].Fase)
      /\ analyzer \in {"corrente", "potencia"}
           => result.tabela[k].Amostras = InputCount(result.tabela[k].Fase)

(* a record with an unparsable timestamp and a missing sibling channel is  *)
(* counted for the channel it holds                                        *)
C9_Witness ==
  /\ Completed /\ analyzer = "corrente"
  /\ result.meta.registros = 2
  /\ result.meta.timestamps_invalid >= 1
  /\ \E i \in 1..2 : /\ result.serie[i].data.k = "null"
                     /\ result.serie[i].vals["corrente_1"].k = "null"
                     /\ result.serie[i].vals["corrente_3"].k = "num"
  /\ result.tabela[3].Amostras = 2
  /\ result.tabela[1].Amostras = 1

(* C10: the output time series is ordered by parsed timestamp: entries     *)
(* with a valid timestamp are non-decreasing in time and every entry with  *)
(* a missing or unparsable timestamp comes after all the valid ones.       *)
C10_Ordering ==
  (Completed /\ analyzer \in {"tensao", "corrente", "potencia", "demanda"}) =>
    \A i, j \in 1..Len(result.serie) :
      i < j =>
        /\ (result.serie[i].data.k # "null" /\ result.serie[j].data.k # "null")
             => result.serie[i].data.n <= result.serie[j].data.n
        /\ result.serie[i].data.k = "null" => result.serie[j].data.k = "null"

(* the input holds a record without a valid timestamp before a record with *)
(* one                                                                     *)
C10_Witness ==
  /\ Completed /\ analyzer = "corrente"
  /\ records.shape = "list" /\ Len(records.items) = 2
  /\ \A i \in 1..2 : IsDict(records.items[i])
  /\ records.items[1].rec["data_inc"].k # "iso"
  /\ records.items[2].rec["data_inc"].k = "iso"
  /\ result.serie[1].data.k # "null"
  /\ result.serie[2].data.k = "null"

Wrapped(recs) ==
  Input(recs.shape, [i \in 1..Len(recs.items) |->
                       IF recs.items[i].wrap = "bare" THEN Item("env", recs.items[i].rec)
                       ELSE recs.items[i]])

(* the values a call of the pending analyzer may return on recs *)
Outcomes(recs) ==
  IF analyzer = "tensao"
  THEN {analyze_records(recs, params.tol_perc, params.z_thr, b) : b \in {"raise", "nan"}}
  ELSE {Call(analyzer, recs, params)}

(* C12: for each of the four analyzers, a list of bare records gives the   *)
(* result that the same records give when each is wrapped as               *)
(* {dadoEnergia: record}.                                                  *)
C12_BareEqualsWrapped ==
  (pc = "done" /\ records.shape = "list") => result \in Outcomes(Wrapped(records))

(* C13: in the current, power and demand analyzers timestamps_parsed is    *)
(* the number of records with a parsable data_inc, timestamps_invalid the  *)
(* number of records whose data_inc is missing or unparsable, and their    *)
(* sum is meta.registros, the number of records.                           *)
C13_TimestampCounts ==
  (Completed /\ analyzer \in {"corrente", "potencia", "demanda"}) =>
    LET its == DictItems(records)
        ok == Cardinality({i \in 1..Len(its) : its[i].rec["data_inc"].k = "iso"})
    IN /\ result.meta.timestamps_parsed = ok
       /\ result.meta.timestamps_invalid = Len(its) - ok
       /\ result.meta.registros = Len(its)
       /\ result.meta.timestamps_parsed + result.meta.timestamps_invalid = result.meta.registros

C13_Witness ==
  /\ Completed /\ analyzer \in {"corrente", "potencia", "demanda"}
  /\ \E i \in 1..Len(records.items) :
       IsDict(records.items[i]) /\ records.items[i].rec["data_inc"].k \in {"absent", "null", "str"}
  /\ result.meta.registros = 2
  /\ result.meta.timestamps_parsed = 1
  /\ result.meta.timestamps_invalid = 1

TimeField == IF analyzer = "tensao" THEN "data_coleta" ELSE "data_inc"

MonitoredChannels ==
  IF analyzer = "tensao" THEN Fases
  ELSE IF analyzer = "corrente" THEN FasesCorrente
  ELSE IF analyzer = "potencia" THEN ComponentesCand
  ELSE <<>>

AbsentFromAll(f) ==
  \A i \in 1..Len(DictItems(records)) : DictItems(records)[i].rec[f].k = "absent"

NoSampleIn(f) ==
  \A i \in 1..Len(DictItems(records)) : ~IsNum(to_numeric(DictItems(records)[i].rec[f]))

(* the batch is a list and the voltage analyzer reads every record of it:  *)
(* each one is wrapped as {dadoEnergia: record}                            *)
ReadAsGiven ==
  analyzer = "tensao" =>
    /\ records.shape = "list"
    /\ \A i \in 1..Len(records.items) : records.items[i].wrap = "env"

RowsOf(r, f) == SelectSeq(StatRows(r), LAMBDA e : e.Fase = f)

(* C14: on a non-empty batch no analyzer raises because a field is absent  *)
(* from every record: with the timestamp field absent the call returns and *)
(* reports no valid timestamp, with a monitored channel absent the call    *)
(* returns and reports no sample for that channel.                         *)
C14_AbsentField ==
  (pc = "done" /\ DictItems(records) # <<>> /\ ReadAsGiven) =>
    /\ AbsentFromAll(TimeField) =>
         /\ result.status = "ok"
         /\ result.meta.periodo_inicio.k = "null"
         /\ \A i \in 1..Len(result.serie) : analyzer # "demanda" => result.serie[i].data.k = "null"
    /\ \A f \in Range(MonitoredChannels) :
         AbsentFromAll(f) =>
           /\ result.status = "ok"
           /\ \A k \in 1..Len(RowsOf(result, f)) : RowsOf(result, f)[k].Amostras = 0

(* C15: for every input batch the statistics table of an analyzer has      *)
(* exactly one entry per monitored channel, in order; a channel without a  *)
(* non-missing value, absent channels included, has count 0 and null mean, *)
(* deviation, minimum and maximum.                                         *)
C15_OneRowPerChannel ==
  (pc = "done" /\ analyzer \in {"tensao", "corrente", "potencia"}) =>
    /\ result.status = "ok"
    /\ Len(result.tabela) = Len(MonitoredChannels)
    /\ \A k \in 1..Len(MonitoredChannels) :
         /\ result.tabela[k].Fase = MonitoredChannels[k]
         /\ NoSampleIn(MonitoredChannels[k]) =>
              /\ result.tabela[k].Amostras = 0
              /\ result.tabela[k].media.k = "null" /\ result.tabela[k].desvio.k = "null"
              /\ result.tabela[k].min.k = "null" /\ result.tabela[k].max.k = "null"

(* C16: the demand analyzer raises when the aggregation granularity is     *)
(* neither 'hour' nor 'day'.                                               *)
C16_UnknownGranularity ==
  (pc = "done" /\ analyzer = "demanda" /\ params.agg \notin {"hour", "day"})
    => result.status = "raised"

MappingCount(recs) ==
  IF recs.shape = "dict" THEN 1
  ELSE IF recs.shape = "list"
       THEN Cardinality({i \in 1..Len(recs.items) : recs.items[i].wrap # "nondict"})
       ELSE 0

MappingAt(recs, k) ==
  LET I == IdxSeq(Len(recs.items), {i \in 1..Len(recs.items) : recs.items[i].wrap # "nondict"})
  IN recs.items[I[k]].rec

(* C17: _normalizar_input returns, in input order, one mapping per mapping *)
(* element of the input (the nested mapping of a wrapped element, the      *)
(* element itself otherwise), dropping the other list elements, and the    *)
(* empty list for null and for a value that is no mapping and no list; so  *)
(* meta.registros is the number of mapping elements of the input.          *)
C17_Normalizar ==
  (analyzer \in {"corrente", "potencia", "demanda"}) =>
    /\ Len(_normalizar_input(records)) = MappingCount(records)
    /\ \A k \in 1..MappingCount(records) :
         _normalizar_input(records)[k] = MappingAt(records, k)
    /\ Completed => result.meta.registros = MappingCount(records)

C17_Witness ==
  /\ Completed /\ analyzer = "corrente" /\ records.shape = "list"
  /\ Len(records.items) = 2
  /\ records.items[1].wrap = "nondict" /\ records.items[2].wrap = "badenv"
  /\ result.meta.registros = 1
  /\ result.serie[1].vals["corrente_1"] = Int2Q(10)

SerieCol(r, c) == [i \in 1..Len(r.serie) |-> r.serie[i].vals[c]]

(* positions, from 0, of the values of vals further than z_thr sample      *)
(* deviations from the mean of the non-missing values:                     *)
(* (v - mean)^2 * (n - 1) > z_thr^2 * sum of squared deviations            *)
Outliers(vals, z_thr) ==
  LET s == dropna(vals)
  IN IF Len(s) < 2 THEN {}
     ELSE IF SqDev(s).n = 0 THEN {}
     ELSE {i - 1 : i \in {j \in 1..Len(vals) :
             /\ IsNum(vals[j])
             /\ RLt(RMul(RMul(z_thr, z_thr), SqDev(s)),
                    RMul(Int2Q(Len(s) - 1),
                         RMul(RSub(vals[j], Mean(s)), RSub(vals[j], Mean(s)))))}}

(* C18: in the voltage, current and power analyzers the anomaly list of a  *)
(* channel is empty when the channel has no non-missing value or a zero or *)
(* undefined sample deviation, and otherwise lists, in ascending order,    *)
(* exactly the positions in the time-sorted batch of the non-missing       *)
(* values with |value - mean| > z_thr * sample standard deviation.         *)
C18_Anomalies ==
  (Completed /\ analyzer \in {"tensao", "corrente", "potencia"}) =>
    \A c \in DOMAIN result.anomalias :
      LET a == result.anomalias[c]
      IN /\ Range(a) = Outliers(SerieCol(result, c), params.z_thr)
         /\ \A i, j \in 1..Len(a) : i < j => a[i] < a[j]

C18_Witness ==
  /\ Completed /\ analyzer = "corrente"
  /\ records.items = <<Sample90, Sample30, Sample60>>
  /\ params.z_thr = Q(1, 2)
  /\ result.anomalias["corrente_1"] = <<1, 2>>
  /\ result.anomalias["corrente_2"] = <<1, 2>>
  /\ result.anomalias["corrente_3"] = <<>>

ValidTime(rec) ==
  IF analyzer = "tensao" THEN rec["data_coleta"].k = "br" ELSE rec["data_inc"].k = "iso"

(* the input records with a valid timestamp and a numeric value of c *)
Points(c) ==
  {i \in 1..Len(DictItems(records)) :
     ValidTime(DictItems(records)[i].rec) /\ IsNum(to_numeric(DictItems(records)[i].rec[c]))}

PointTimes(c) == {DictItems(records)[i].rec[TimeField].v : i \in Points(c)}

(* C19: in every analyzer the trend of a channel is {null, null} when      *)
(* fewer than two records have a valid timestamp and a value for it, and   *)
(* when all such records share one timestamp; the fit never raises and no  *)
(* slope comes from a degenerate time axis.                                *)
C19_TrendDegenerate ==
  (pc = "done") =>
    /\ result.status = "raised" => result.error # "LinAlgError"
    /\ (result.status = "ok" /\ analyzer \in {"tensao", "corrente", "potencia"}) =>
         \A c \in DOMAIN result.tendencias :
           Cardinality(PointTimes(c)) < 2 => IsNullTrend(result.tendencias[c])
    /\ (result.status = "ok" /\ analyzer = "demanda") =>
         (Len(dropna(SerieCol(result, "agregada"))) < 2
            => IsNullTrend(result.tendencias["agregada"]))

BatchTimes ==
  {DictItems(records)[i].rec[TimeField].v :
     i \in {j \in 1..Len(DictItems(records)) : ValidTime(DictItems(records)[j].rec)}}

(* the least-squares line through the points of channel c, time measured   *)
(* from the earliest valid timestamp of the batch                          *)
FitFromBatchStart(c) ==
  LET I == IdxSeq(Len(DictItems(records)), Points(c))
  IN polyfit([k \in 1..Len(I) |->
                Int2Q(DictItems(records)[I[k]].rec[TimeField].v - SetMin(BatchTimes))],
             [k \in 1..Len(I) |-> to_numeric(DictItems(records)[I[k]].rec[c])])

(* C20: the trend of a channel measures time from the earliest valid       *)
(* timestamp of the whole batch, so its intercept is the fitted value at   *)
(* that instant, also when the record holding it has no value for the      *)
(* channel.                                                                *)
C20_TrendOrigin ==
  (Completed /\ analyzer \in {"tensao", "corrente", "potencia"} /\ ReadAsGiven) =>
    \A c \in DOMAIN result.tendencias :
      result.tendencias[c].slope_per_s.k = "num"
        => result.tendencias[c] = FitFromBatchStart(c)

(* the numeric values the input records hold for the channels chs *)
PooledInput(chs) ==
  Flatten([i \in 1..Len(DictItems(records)) |->
             dropna([j \in 1..Len(chs) |-> to_numeric(DictItems(records)[i].rec[chs[j]])])])

(* C21: in the voltage analyzer the nominal level is null iff the batch    *)
(* holds no tensao_1/2/3 value; otherwise it is one of 110, 220, 380 and   *)
(* no other of them is nearer to the median of the pooled values.          *)
C21_NominalVoltage ==
  (Completed /\ analyzer = "tensao" /\ ReadAsGiven) =>
    LET pool == PooledInput(Fases)
        N == result.meta.nivel_nominal
    IN IF pool = <<>> THEN N.k = "null"
       ELSE /\ N \in {Int2Q(110), Int2Q(220), Int2Q(380)}
            /\ \A c \in {110, 220, 380} :
                 RLe(RAbs(RSub(N, Median(pool))), RAbs(RSub(Int2Q(c), Median(pool))))

C21_Witness ==
  /\ Completed /\ analyzer = "tensao" /\ ReadAsGiven
  /\ PooledInput(Fases) = <<Int2Q(350)>>
  /\ result.meta.nivel_nominal = Int2Q(380)

(* C22: the nominal level of the current analyzer is the median of the     *)
(* pooled corrente_1/2/3 values and that of the power analyzer the median  *)
(* of the potencia_ativa_tot values, as it is, snapped to no candidate     *)
(* level; it is null iff there is no such value.                           *)
C22_NominalMedian ==
  (Completed /\ analyzer \in {"corrente", "potencia"}) =>
    LET pool == PooledInput(IF analyzer = "corrente" THEN FasesCorrente
                            ELSE <<"potencia_ativa_tot">>)
    IN IF pool = <<>> THEN result.meta.nivel_nominal.k = "null"
       ELSE result.meta.nivel_nominal = Median(pool)

C22_Witness ==
  /\ Completed /\ analyzer = "corrente"
  /\ records \in ThreeSamples
  /\ result.meta.nivel_nominal = Int2Q(10)

(* the field f is a key of some record of the batch *)
InBatch(f) ==
  \E i \in 1..Len(DictItems(records)) : DictItems(records)[i].rec[f].k # "absent"

(* the source of the demand series by the stated priority *)
ClaimedSource ==
  LET alts == SelectSeq(AltDemanda, InBatch)
  IN IF params.field_name # NoField /\ InBatch(params.field_name) THEN params.field_name
     ELSE IF InBatch("potencia_ativa_tot") THEN "potencia_ativa_tot"
     ELSE IF InBatch("potencia_ap_tot") THEN "potencia_ap_tot"
     ELSE IF \A j \in 1..Len(FasesAtiva) : InBatch(FasesAtiva[j]) THEN "soma_fases"
     ELSE IF alts # <<>> THEN alts[1]
     ELSE NoField

(* the non-missing demand values that source yields *)
ClaimedDemand ==
  LET its == DictItems(records)
      PhaseVals(i) == dropna([j \in 1..Len(FasesAtiva) |-> to_numeric(its[i].rec[FasesAtiva[j]])])
  IN IF ClaimedSource = NoField THEN <<>>
     ELSE IF ClaimedSource = "soma_fases"
          THEN Flatten([i \in 1..Len(its) |->
                          IF PhaseVals(i) = <<>> THEN <<>> ELSE <<RSum(PhaseVals(i))>>])
     ELSE PooledInput(<<ClaimedSource>>)

(* C23: the demand series is read from the caller's field if the batch     *)
(* has it, else potencia_ativa_tot, else potencia_ap_tot, else the sum of   *)
(* the three phase fields when all three are in the batch, else a further   *)
(* alternate field, else it is all missing: the statistics of the result   *)
(* are those of that series, and one or two phase fields give no demand.    *)
C23_DemandPriority ==
  (Completed /\ analyzer = "demanda") =>
    /\ result.tabela.Amostras = Len(ClaimedDemand)
    /\ ClaimedDemand # <<>> => /\ result.tabela.media = Mean(ClaimedDemand)
                                /\ result.tabela.min = SeqMin(ClaimedDemand)
                                /\ result.tabela.max = SeqMax(ClaimedDemand)

(* C24: every result of the demand analyzer has a perfil_horario of 24     *)
(* entries for the hours 0..23 and a perfil_diario of 7 entries for the    *)
(* days 0..6, an entry being null when no record falls in it.              *)
C24_FullProfiles ==
  (Completed /\ analyzer = "demanda") =>
    LET its == DictItems(records)
        T == {its[i].rec["data_inc"].v : i \in {j \in 1..Len(its) : ValidTime(its[j].rec)}}
    IN /\ Len(result.perfil_horario) = 24
       /\ Len(result.perfil_diario) = 7
       /\ \A h \in 1..24 :
            /\ result.perfil_horario[h].hour = h - 1
            /\ (\A t \in T : HourOf(t) # h - 1) => result.perfil_horario[h].media.k = "null"
       /\ \A d \in 1..7 :
            /\ result.perfil_diario[d].dayofweek = d - 1
            /\ (\A t \in T : DayOfWeek(t) # d - 1) => result.perfil_diario[d].media.k = "null"

(* C30: meta.field_used of the demand analyzer names the source the demand *)
(* series was read from: the field's name, 'soma_fases' only for the sum    *)
(* of the phase fields, and not 'soma_fases' when nothing was found.        *)
C30_FieldUsed ==
  (Completed /\ analyzer = "demanda") =>
    LET rows == _normalizar_input(records)
        df == Frame(rows, parse_datetime_series(rows, "data_inc"))
        source == DemandSource(df, _choose_demand_field(df, params.field_name))
    IN IF source = NoField THEN result.meta.field_used # "soma_fases"
       ELSE result.meta.field_used = source

(* the positions of the aggregated buckets that hold a value *)
NonNullBuckets == {k \in 1..Len(result.serie) : result.serie[k].vals["agregada"].k = "num"}

(* C25: picos holds min(5, number of buckets with a value) buckets, in     *)
(* non-increasing order of value; no bucket left out has a value above a   *)
(* listed one and a bucket without a value is never listed.                *)
C25_Picos ==
  (Completed /\ analyzer = "demanda") =>
    LET P == result.picos
        S == result.serie
    IN /\ Len(P) = IF Cardinality(NonNullBuckets) < 5 THEN Cardinality(NonNullBuckets) ELSE 5
       /\ \A j \in 1..(Len(P) - 1) : RLe(P[j + 1].valor, P[j].valor)
       /\ \E L \in SUBSET NonNullBuckets :
            /\ Cardinality(L) = Len(P)
            /\ {<<S[k].data, S[k].vals["agregada"]>> : k \in L}
                 = {<<P[j].timestamp, P[j].valor>> : j \in 1..Len(P)}
            /\ \A k \in NonNullBuckets \ L :
                 \A j \in 1..Len(P) : RLe(S[k].vals["agregada"], P[j].valor)

C25_Witness ==
  /\ Completed /\ analyzer = "demanda"
  /\ records \in PeakHours
  /\ Len(result.serie) = 8
  /\ Cardinality(NonNullBuckets) = 7
  /\ [j \in 1..Len(result.picos) |-> result.picos[j].valor]
       = <<Int2Q(300), Int2Q(300), Int2Q(200), Int2Q(120), Int2Q(100)>>

(* C26: every call of the demand analyzer returns, and its anomaly list is *)
(* the list of the positions, from 0, of the aggregated buckets whose      *)
(* value is further than z_thr sample deviations from the mean.            *)
C26_DemandAnomalies ==
  (pc = "done" /\ analyzer = "demanda") =>
    /\ result.status = "ok"
    /\ Range(result.anomalias["agregada"])
         = Outliers(SerieCol(result, "agregada"), params.z_thr)

(* C27: the trend of the aggregated demand series is non-null when two or  *)
(* more buckets hold a value, and {null, null} only with fewer than two.   *)
C27_DemandTrend ==
  (Completed /\ analyzer = "demanda") =>
    (IsNullTrend(result.tendencias["agregada"]) <=> Cardinality(NonNullBuckets) < 2)

(* the nominal level the events of a result were measured against *)
NominalOf(r) ==
  IF analyzer = "demanda"
  THEN IF dropna(SerieCol(r, "agregada")) = <<>> THEN None
       ELSE Median(dropna(SerieCol(r, "agregada")))
  ELSE r.meta.nivel_nominal

(* C28: in the current, power and demand analyzers no event reports a      *)
(* value equal to the nominal level, whatever the sign of that level.      *)
C28_NominalNoEvent ==
  (Completed /\ analyzer \in {"corrente", "potencia", "demanda"}) =>
    \A k \in 1..Len(result.events) : result.events[k].valor # NominalOf(result)

====
